---- MODULE Spec2Model ----
(***************************************************************************)
(* UK capital gains tax calculator for Schwab equity awards                *)
(* (karl-chan/schwab-cgt-calculator).                                      *)
(*                                                                         *)
(* The model covers src/calculator.rs (CGTCalculator), the two date-keyed  *)
(* lookups src/stock/prices.rs and src/currency/exchange_rates.rs, and the *)
(* EquityAward record of src/schwab/equity_award_center.rs.                *)
(*                                                                         *)
(* Numbers.  The program computes in f64.  An f64 is modelled as a pair    *)
(* <<n, d>>: the exact rational n/d in lowest terms when d > 0, and the    *)
(* three IEEE specials when d = 0: <<1,0>> = +inf, <<-1,0>> = -inf and     *)
(* <<0,0>> = NaN.  Rounding and the sign of zero are not modelled; NaN,    *)
(* the infinities, division by zero and the NaN rules of f64::min and      *)
(* f64::max are.                                                           *)
(*                                                                         *)
(* Panics.  A Rust panic (panic!, expect on None, assert_eq!) ends the     *)
(* call without a value; the operators below return a record whose err     *)
(* field names the panic ("" when there is none).                          *)
(***************************************************************************)
EXTENDS Integers, Sequences, FiniteSets, TLC

(***************************************************************************)
(* Bounds of the model and the small input sets.                           *)
(***************************************************************************)
\* Longest ledger (number of equity awards) the model enumerates.
MaxLots == 2
\* Largest number of shares a disposal asks to sell.
MaxQty == 3

\* Length of the bed-and-breakfast lookahead, calculator.rs: Duration::days(30).
BedAndBreakfastDays == 30

Symbols == {"GOOG", "MSFT"}

(***************************************************************************)
(* f64                                                                     *)
(***************************************************************************)
Abs(n) == IF n < 0 THEN -n ELSE n

Sign(n) == IF n > 0 THEN 1 ELSE IF n < 0 THEN -1 ELSE 0

RECURSIVE Gcd(_, _)
Gcd(a, b) == IF b = 0 THEN a ELSE Gcd(b, a % b)

\* The f64 with value n/d (d >= 0); d = 0 gives the special of n's sign.
Norm(n, d) ==
  IF d = 0 THEN <<Sign(n), 0>>
  ELSE LET g == Gcd(Abs(n), d) IN <<n \div g, d \div g>>

F(n) == <<n, 1>>

NaN == <<0, 0>>

IsNaN(x) == x = NaN

IsFinite(x) == x[2] > 0

f64_add(a, b) ==
  IF a[2] = 0 /\ b[2] = 0
  THEN IF a = b THEN a ELSE NaN
  ELSE Norm(a[1] * b[2] + b[1] * a[2], a[2] * b[2])

f64_neg(a) == <<-a[1], a[2]>>

f64_sub(a, b) == f64_add(a, f64_neg(b))

f64_mul(a, b) == Norm(a[1] * b[1], a[2] * b[2])

\* 1/b: 1/0 = +inf, 1/inf = 0, 1/NaN = NaN.
f64_recip(b) ==
  IF b = NaN THEN NaN
  ELSE IF b[1] = 0 THEN <<1, 0>>
  ELSE <<Sign(b[1]) * b[2], Abs(b[1])>>

f64_div(a, b) == f64_mul(a, f64_recip(b))

\* a < b as f64 compares: FALSE as soon as one side is NaN.
f64_lt(a, b) ==
  /\ ~IsNaN(a)
  /\ ~IsNaN(b)
  /\ IF a[2] = 0 /\ b[2] = 0 THEN a[1] < b[1]
     ELSE IF a[2] = 0 THEN a[1] < 0
     ELSE IF b[2] = 0 THEN b[1] > 0
     ELSE a[1] * b[2] < b[1] * a[2]

f64_gt(a, b) == f64_lt(b, a)

f64_le(a, b) == ~IsNaN(a) /\ ~IsNaN(b) /\ ~f64_lt(b, a)

\* f64::min and f64::max: a NaN operand is ignored.
f64_min(a, b) ==
  IF IsNaN(a) THEN b ELSE IF IsNaN(b) THEN a ELSE IF f64_lt(b, a) THEN b ELSE a

f64_max(a, b) ==
  IF IsNaN(a) THEN b ELSE IF IsNaN(b) THEN a ELSE IF f64_lt(a, b) THEN b ELSE a

\* Iterator::sum over f64: a left fold of + from 0.
RECURSIVE f64_sum(_)
f64_sum(xs) ==
  IF xs = <<>> THEN F(0)
  ELSE f64_add(f64_sum(SubSeq(xs, 1, Len(xs) - 1)), xs[Len(xs)])

(***************************************************************************)
(* Option<f64>                                                             *)
(***************************************************************************)
None == [some |-> FALSE, v |-> NaN]

Some(x) == [some |-> TRUE, v |-> x]

(***************************************************************************)
(* Set helper for BTreeMap::range(..date).next_back().                     *)
(***************************************************************************)
SetMax(S) == CHOOSE x \in S : \A y \in S : y <= x

(***************************************************************************)
(* src/currency/exchange_rates.rs and src/stock/prices.rs                  *)
(* A BTreeMap<NaiveDate, f64> is a function from the dates that have data. *)
(***************************************************************************)
\* closest_prior falling back to the first entry of range(..date) instead
\* of the last (next() for next_back()).
closest_prior_earliest(series, date) ==
  IF date \in DOMAIN series THEN Some(series[date])
  ELSE LET before == {k \in DOMAIN series : k < date}
       IN IF before = {} THEN None
          ELSE Some(series[CHOOSE k \in before : \A j \in before : k <= j])

\* The BTreeMap lookup both providers share: the entry at `date`, else the
\* last entry of range(..date), else nothing.
closest_prior(series, date) ==
  IF date \in DOMAIN series THEN Some(series[date])
  ELSE LET before == {k \in DOMAIN series : k < date}
       IN IF before = {} THEN None ELSE Some(series[SetMax(before)])

to_gbp(historic_rates, usd, date) ==
  LET maybe_rate == closest_prior(historic_rates, date)
  IN IF maybe_rate.some THEN Some(f64_mul(maybe_rate.v, usd)) ELSE None

\* asserted is FALSE when the assert_eq! on the symbol panics.
get_historic_price(self_symbol, historic_prices, symbol, date) ==
  IF symbol # self_symbol
  THEN [asserted |-> FALSE, price |-> None]
  ELSE [asserted |-> TRUE, price |-> closest_prior(historic_prices, date)]

(***************************************************************************)
(* src/schwab/equity_award_center.rs                                       *)
(***************************************************************************)
\* struct EquityAward.  Prices and share counts are whole numbers in the
\* ledgers the model enumerates; the calculator lifts them to f64 with F.
EquityAward(symbol, date_acquired, acquisition_price, available_to_sell) ==
  [symbol |-> symbol, date_acquired |-> date_acquired,
   acquisition_price |-> acquisition_price,
   available_to_sell |-> available_to_sell]

(***************************************************************************)
(* src/calculator.rs                                                       *)
(***************************************************************************)
\* struct CGTCalculator, as CGTCalculator::new fills it.
CGTCalculator(exemption, rate, awards_, symbol, prices, rates) ==
  [annual_exemption_amount |-> exemption,
   cgt_rate |-> rate,
   equity_award_center |-> [awards |-> awards_],
   stock_price_provider |-> [symbol |-> symbol, historic_prices |-> prices],
   exchange_rate_provider |-> [historic_rates |-> rates]]

\* .map(|award| award.available_to_sell).sum()
sum_available_to_sell(lots) ==
  f64_sum([i \in 1..Len(lots) |-> F(lots[i].available_to_sell)])

\* available_shares_at_sell_date without its filter on date_acquired.
available_shares_any_date(self, symbol, sell_date) ==
  sum_available_to_sell(
    SelectSeq(self.equity_award_center.awards,
              LAMBDA award : award.symbol = symbol))

\* The sum validate_sufficient_holdings_at_sell_date compares with.
available_shares_at_sell_date(self, symbol, sell_date) ==
  sum_available_to_sell(
    SelectSeq(self.equity_award_center.awards,
              LAMBDA award : /\ award.symbol = symbol
                             /\ award.date_acquired <= sell_date))

\* TRUE when validate_sufficient_holdings_at_sell_date panics.
validate_sufficient_holdings_at_sell_date(self, symbol, shares_to_sell, sell_date) ==
  f64_gt(shares_to_sell, available_shares_at_sell_date(self, symbol, sell_date))

calculate_proceeds(self, symbol, shares_to_sell, sell_date) ==
  LET looked == get_historic_price(self.stock_price_provider.symbol,
                                   self.stock_price_provider.historic_prices,
                                   symbol, sell_date)
      gbp == to_gbp(self.exchange_rate_provider.historic_rates,
                    f64_mul(looked.price.v, shares_to_sell), sell_date)
  IN IF ~looked.asserted
     THEN [err |-> "UnsupportedSymbol", v |-> NaN,
           price_lookups |-> <<>>, rate_lookups |-> <<>>]
     ELSE IF ~looked.price.some
     THEN [err |-> "MissingStockPrice", v |-> NaN,
           price_lookups |-> <<sell_date>>, rate_lookups |-> <<>>]
     ELSE IF ~gbp.some
     THEN [err |-> "MissingExchangeRate", v |-> NaN,
           price_lookups |-> <<sell_date>>, rate_lookups |-> <<sell_date>>]
     ELSE [err |-> "", v |-> gbp.v,
           price_lookups |-> <<sell_date>>, rate_lookups |-> <<sell_date>>]

\* lookahead_filter with the lookahead date excluded (< for <=).
lookahead_filter_open_end(self, symbol, sell_date, lookahead_date) ==
  SelectSeq(self.equity_award_center.awards,
            LAMBDA award : /\ award.symbol = symbol
                           /\ sell_date <= award.date_acquired
                           /\ award.date_acquired < lookahead_date)

\* lookahead_filter with the sell date excluded (< for <=).
lookahead_filter_after_sale(self, symbol, sell_date, lookahead_date) ==
  SelectSeq(self.equity_award_center.awards,
            LAMBDA award : /\ award.symbol = symbol
                           /\ sell_date < award.date_acquired
                           /\ award.date_acquired <= lookahead_date)

\* The filter count_bed_and_breakfast_shares and
\* calculate_bed_and_breakfast_cost both apply.
lookahead_filter(self, symbol, sell_date, lookahead_date) ==
  SelectSeq(self.equity_award_center.awards,
            LAMBDA award : /\ award.symbol = symbol
                           /\ sell_date <= award.date_acquired
                           /\ award.date_acquired <= lookahead_date)

count_bed_and_breakfast_shares(self, symbol, shares_to_sell, sell_date, lookahead_date) ==
  LET lookahead_shares ==
        sum_available_to_sell(lookahead_filter(self, symbol, sell_date, lookahead_date))
  IN f64_min(lookahead_shares, shares_to_sell)

\* sort_by_key left out: the awards stay in ledger order.
sort_by_key_omitted(lots) == lots

\* Vec::sort_by_key(|award| award.date_acquired): a stable sort.
RECURSIVE sort_by_key(_)
sort_by_key(lots) ==
  IF lots = <<>> THEN <<>>
  ELSE LET x == lots[Len(lots)]
           sorted == sort_by_key(SubSeq(lots, 1, Len(lots) - 1))
           k == Cardinality({i \in 1..Len(sorted) :
                               sorted[i].date_acquired <= x.date_acquired})
       IN SubSeq(sorted, 1, k) \o <<x>> \o SubSeq(sorted, k + 1, Len(sorted))

\* The for loop of calculate_bed_and_breakfast_cost over the awards still to
\* visit; st carries total_cost, remaining_shares_to_fill and, as a record of
\* what the loop did, one fill per completed iteration and every date handed
\* to to_gbp.
RECURSIVE bed_and_breakfast_loop(_, _, _)
bed_and_breakfast_loop(self, lookahead_awards, st) ==
  IF lookahead_awards = <<>> THEN st
  ELSE LET award == Head(lookahead_awards)
           shares_to_fill == f64_min(st.remaining_shares_to_fill,
                                     F(award.available_to_sell))
           gbp == to_gbp(self.exchange_rate_provider.historic_rates,
                         f64_mul(shares_to_fill, F(award.acquisition_price)),
                         award.date_acquired)
       IN IF ~gbp.some
          THEN [st EXCEPT !.err = "MissingExchangeRate",
                          !.rate_lookups = Append(@, award.date_acquired)]
          ELSE bed_and_breakfast_loop(self, Tail(lookahead_awards),
                 [err |-> "",
                  total_cost |-> f64_add(st.total_cost, gbp.v),
                  remaining_shares_to_fill |->
                    f64_sub(st.remaining_shares_to_fill, shares_to_fill),
                  fills |-> Append(st.fills,
                                   [award |-> award,
                                    shares_to_fill |-> shares_to_fill,
                                    cost |-> gbp.v]),
                  rate_lookups |-> Append(st.rate_lookups, award.date_acquired)])

calculate_bed_and_breakfast_cost(self, symbol, shares_to_sell, sell_date, lookahead_date) ==
  LET lookahead_awards ==
        sort_by_key(lookahead_filter(self, symbol, sell_date, lookahead_date))
  IN bed_and_breakfast_loop(self, lookahead_awards,
       [err |-> "", total_cost |-> F(0),
        remaining_shares_to_fill |-> shares_to_sell,
        fills |-> <<>>, rate_lookups |-> <<>>])

\* The .map(to_gbp(..).expect(..)).sum() of calculate_section_104_holding_cost:
\* the awards are converted and added in ledger order, and the first missing
\* rate panics.
RECURSIVE total_cost_before_sell_date(_, _, _)
total_cost_before_sell_date(self, lots, st) ==
  IF lots = <<>> THEN st
  ELSE LET award == Head(lots)
           gbp == to_gbp(self.exchange_rate_provider.historic_rates,
                         f64_mul(F(award.available_to_sell),
                                 F(award.acquisition_price)),
                         award.date_acquired)
       IN IF ~gbp.some
          THEN [st EXCEPT !.err = "MissingExchangeRate",
                          !.rate_lookups = Append(@, award.date_acquired)]
          ELSE total_cost_before_sell_date(self, Tail(lots),
                 [err |-> "", sum |-> f64_add(st.sum, gbp.v),
                  rate_lookups |-> Append(st.rate_lookups, award.date_acquired)])

\* awards_before_sell_date with the sell date included (<= for <).
awards_up_to_sell_date(self, symbol, sell_date) ==
  SelectSeq(self.equity_award_center.awards,
            LAMBDA award : /\ award.symbol = symbol
                           /\ award.date_acquired <= sell_date)

\* The awards calculate_section_104_holding_cost keeps.
awards_before_sell_date(self, symbol, sell_date) ==
  SelectSeq(self.equity_award_center.awards,
            LAMBDA award : /\ award.symbol = symbol
                           /\ award.date_acquired < sell_date)

calculate_section_104_holding_cost(self, symbol, shares_to_sell, sell_date) ==
  LET before == awards_before_sell_date(self, symbol, sell_date)
      cost == total_cost_before_sell_date(self, before,
                [err |-> "", sum |-> F(0), rate_lookups |-> <<>>])
      total_shares_before_sell_date == sum_available_to_sell(before)
      avg_cost == f64_div(cost.sum, total_shares_before_sell_date)
  IN [err |-> cost.err,
      v |-> IF cost.err = "" THEN f64_mul(avg_cost, shares_to_sell) ELSE NaN,
      total_shares_before_sell_date |-> total_shares_before_sell_date,
      rate_lookups |-> cost.rate_lookups]

calculate_costs(self, symbol, shares_to_sell, sell_date) ==
  LET bed_and_breakfast_lookahead_date == sell_date + BedAndBreakfastDays
      bed_and_breakfast_shares ==
        count_bed_and_breakfast_shares(self, symbol, shares_to_sell, sell_date,
                                       bed_and_breakfast_lookahead_date)
      section_104_holding_shares == f64_sub(shares_to_sell, bed_and_breakfast_shares)
      bnb == calculate_bed_and_breakfast_cost(self, symbol, bed_and_breakfast_shares,
                                              sell_date, bed_and_breakfast_lookahead_date)
      s104 == calculate_section_104_holding_cost(self, symbol,
                                                 section_104_holding_shares, sell_date)
  IN [err |-> IF bnb.err # "" THEN bnb.err ELSE s104.err,
      bed_and_breakfast_shares |-> bed_and_breakfast_shares,
      section_104_holding_shares |-> section_104_holding_shares,
      bed_and_breakfast_cost |-> bnb.total_cost,
      section_104_holding_cost |-> IF bnb.err # "" THEN NaN ELSE s104.v,
      fills |-> bnb.fills,
      rate_lookups |-> IF bnb.err # "" THEN bnb.rate_lookups
                       ELSE bnb.rate_lookups \o s104.rate_lookups]

\* A call that has not returned a CGTCalculatorResult.
NoResult ==
  [some |-> FALSE, cgt |-> NaN, proceeds |-> NaN, bed_and_breakfast_cost |-> NaN,
   section_104_holding_cost |-> NaN, amount_subject_to_cgt |-> NaN, cgt_rate |-> NaN]

\* What a call of calculate_cgt did before it panicked or returned.
Panicked(err, matched, costs, price_lookups, rate_lookups) ==
  [err |-> err, result |-> NoResult, matched |-> matched,
   bed_and_breakfast_shares |-> IF matched THEN costs.bed_and_breakfast_shares ELSE NaN,
   section_104_holding_shares |-> IF matched THEN costs.section_104_holding_shares ELSE NaN,
   fills |-> IF matched THEN costs.fills ELSE <<>>,
   price_lookups |-> price_lookups, rate_lookups |-> rate_lookups]

\* taxable_amount without the .max(0.0).
taxable_amount_unclamped(self, proceeds, bed_and_breakfast_cost, section_104_holding_cost) ==
  f64_sub(f64_sub(f64_sub(proceeds, bed_and_breakfast_cost),
                  section_104_holding_cost),
          self.annual_exemption_amount)

\* let amount_subject_to_cgt = (proceeds - .. - annual_exemption_amount).max(0.0)
taxable_amount(self, proceeds, bed_and_breakfast_cost, section_104_holding_cost) ==
  f64_max(f64_sub(f64_sub(f64_sub(proceeds, bed_and_breakfast_cost),
                          section_104_holding_cost),
                  self.annual_exemption_amount),
          F(0))

calculate_cgt(self, symbol, shares_to_sell, sell_date) ==
  LET proceeds == calculate_proceeds(self, symbol, shares_to_sell, sell_date)
      costs == calculate_costs(self, symbol, shares_to_sell, sell_date)
      amount_subject_to_cgt ==
        taxable_amount(self, proceeds.v, costs.bed_and_breakfast_cost,
                       costs.section_104_holding_cost)
      cgt == f64_mul(amount_subject_to_cgt, self.cgt_rate)
  IN IF validate_sufficient_holdings_at_sell_date(self, symbol, shares_to_sell, sell_date)
     THEN Panicked("InsufficientHoldings", FALSE, costs, <<>>, <<>>)
     ELSE IF proceeds.err # ""
     THEN Panicked(proceeds.err, FALSE, costs,
                   proceeds.price_lookups, proceeds.rate_lookups)
     ELSE IF costs.err # ""
     THEN Panicked(costs.err, TRUE, costs, proceeds.price_lookups,
                   proceeds.rate_lookups \o costs.rate_lookups)
     ELSE [err |-> "",
           result |-> [some |-> TRUE, cgt |-> cgt, proceeds |-> proceeds.v,
                       bed_and_breakfast_cost |-> costs.bed_and_breakfast_cost,
                       section_104_holding_cost |-> costs.section_104_holding_cost,
                       amount_subject_to_cgt |-> amount_subject_to_cgt,
                       cgt_rate |-> self.cgt_rate],
           matched |-> TRUE,
           bed_and_breakfast_shares |-> costs.bed_and_breakfast_shares,
           section_104_holding_shares |-> costs.section_104_holding_shares,
           fills |-> costs.fills,
           price_lookups |-> proceeds.price_lookups,
           rate_lookups |-> proceeds.rate_lookups \o costs.rate_lookups]

(***************************************************************************)
(* The program as a state machine.                                         *)
(*                                                                         *)
(* main builds one CGTCalculator (the parsed ledger, the two downloaded    *)
(* series, the exemption and the rate of the taxpayer status) and calls    *)
(* calculate_cgt once.  The calculator is never written after new.         *)
(***************************************************************************)
VARIABLES
  annual_exemption_amount,  \* CGTCalculator.annual_exemption_amount
  cgt_rate,                 \* CGTCalculator.cgt_rate
  awards,                   \* EquityAwardCenter.awards, in file order
  stock_symbol,             \* YahooStockPriceProvider.symbol
  historic_prices,          \* YahooStockPriceProvider.historic_prices
  historic_rates,           \* YahooExchangeRateProvider.historic_rates
  pc,                       \* "ready", then "returned" or "panicked"
  request,                  \* the arguments of the call made
  outcome                   \* what the call did and returned

vars == <<annual_exemption_amount, cgt_rate, awards, stock_symbol,
          historic_prices, historic_rates, pc, request, outcome>>

calculator == <<annual_exemption_amount, cgt_rate, awards, stock_symbol,
                historic_prices, historic_rates>>

Self ==
  CGTCalculator(annual_exemption_amount, cgt_rate, awards, stock_symbol,
                historic_prices, historic_rates)

\* Day numbers.  With the sell dates below they give a lot before the sale,
\* on the day of the sale, on the last day of the 30-day window and on the
\* first day past it.
LotDates == {0, 1, 31, 32}

SellDates == {1, 2}

AcquisitionPrices == {10, 15}

AvailableToSell == {0, 2}

\* The awards of the symbol the calculator is built for, and two awards of
\* another symbol: one held before the sale, one inside its 30-day window.
Lots ==
  {EquityAward("GOOG", d, p, a) :
     d \in LotDates, p \in AcquisitionPrices, a \in AvailableToSell}
  \cup {EquityAward("MSFT", 0, 15, 2), EquityAward("MSFT", 31, 15, 2)}

Ledgers == UNION {[1..n -> Lots] : n \in 0..MaxLots}

\* The Yahoo series: the reference closes below, from a first day of data on.
ReferencePrices == (0 :> F(20)) @@ (2 :> F(30))

ReferenceRates ==
  (0 :> <<4, 5>>) @@ (1 :> <<3, 4>>) @@ (2 :> <<5, 4>>) @@ (31 :> <<2, 1>>)

Restrict(series, dates) == [d \in dates |-> series[d]]

PriceSeries == {Restrict(ReferencePrices, D) : D \in {{2}, {0, 2}}}

RateSeries == {Restrict(ReferenceRates, D) : D \in {{2, 31}, {0, 1, 2, 31}}}

\* <<annual_exemption_amount, cgt_rate>>.  main: Basic => 0.1, Higher => 0.2.
TaxSettings == {<<F(0), <<1, 10>>>>, <<F(12), <<1, 5>>>>}

NotCalled ==
  [err |-> "", result |-> NoResult, matched |-> FALSE,
   bed_and_breakfast_shares |-> NaN, section_104_holding_shares |-> NaN,
   fills |-> <<>>, price_lookups |-> <<>>, rate_lookups |-> <<>>]

NoRequest == [symbol |-> "", shares_to_sell |-> 0, sell_date |-> 0]

Init ==
  /\ \E tax \in TaxSettings :
       /\ annual_exemption_amount = tax[1]
       /\ cgt_rate = tax[2]
  /\ awards \in Ledgers
  /\ stock_symbol = "GOOG"
  /\ historic_prices \in PriceSeries
  /\ historic_rates \in RateSeries
  /\ pc = "ready"
  /\ request = NoRequest
  /\ outcome = NotCalled

\* calculator.calculate_cgt(&symbol, shares_to_sell, &sell_date)
CalculateCgt ==
  /\ pc = "ready"
  /\ \E symbol \in Symbols, shares_to_sell \in 0..MaxQty, sell_date \in SellDates :
       LET done == calculate_cgt(Self, symbol, F(shares_to_sell), sell_date)
       IN /\ request' = [symbol |-> symbol, shares_to_sell |-> shares_to_sell,
                         sell_date |-> sell_date]
          /\ outcome' = done
          /\ pc' = IF done.err = "" THEN "returned" ELSE "panicked"
  /\ UNCHANGED calculator

Next == CalculateCgt

Spec == Init /\ [][Next]_vars

(***************************************************************************)
(* calculate_section_104_holding_cost on its own: the private function     *)
(* applied to any quantity, not only the one calculate_costs hands it.     *)
(***************************************************************************)
CostSection104 ==
  /\ pc = "ready"
  /\ \E symbol \in Symbols, shares_to_sell \in 0..MaxQty, sell_date \in SellDates :
       LET cost == calculate_section_104_holding_cost(Self, symbol,
                                                      F(shares_to_sell), sell_date)
       IN /\ request' = [symbol |-> symbol, shares_to_sell |-> shares_to_sell,
                         sell_date |-> sell_date]
          /\ outcome' = [NotCalled EXCEPT
                           !.err = cost.err,
                           !.section_104_holding_shares = F(shares_to_sell),
                           !.result = [NoResult EXCEPT
                                         !.some = (cost.err = ""),
                                         !.section_104_holding_cost = cost.v],
                           !.rate_lookups = cost.rate_lookups]
          /\ pc' = IF cost.err = "" THEN "returned" ELSE "panicked"
  /\ UNCHANGED calculator

NextSection104 == CostSection104

SpecSection104 == Init /\ [][NextSection104]_vars

(***************************************************************************)
(* The two lookups on their own, over every series on the days 0..MaxDay.  *)
(***************************************************************************)
\* Last day a series of the lookup specification may hold data for.
MaxDay == 3

\* Closing values, different on every day.
CloseOn(d) == F(20 + d)

RateOn(d) == <<d + 1, 10>>

UsdAmounts == {F(1), F(3)}

NotLookedUp == [asserted |-> TRUE, value |-> None, usd |-> F(0)]

InitLookup ==
  /\ annual_exemption_amount = F(0)
  /\ cgt_rate = <<1, 10>>
  /\ awards = <<>>
  /\ stock_symbol = "GOOG"
  /\ \E D \in SUBSET (0..MaxDay) : historic_prices = [d \in D |-> CloseOn(d)]
  /\ \E D \in SUBSET (0..MaxDay) : historic_rates = [d \in D |-> RateOn(d)]
  /\ pc = "ready"
  /\ request = NoRequest
  /\ outcome = NotLookedUp

\* stock_price_provider.get_historic_price(symbol, &date)
GetHistoricPrice ==
  /\ pc = "ready"
  /\ \E symbol \in Symbols, date \in 0..(MaxDay + 1) :
       LET looked == get_historic_price(stock_symbol, historic_prices, symbol, date)
       IN /\ request' = [symbol |-> symbol, shares_to_sell |-> 0, sell_date |-> date]
          /\ outcome' = [asserted |-> looked.asserted, value |-> looked.price,
                         usd |-> F(0)]
          /\ pc' = IF looked.asserted THEN "price" ELSE "panicked"
  /\ UNCHANGED calculator

\* exchange_rate_provider.to_gbp(usd, &date)
ToGbp ==
  /\ pc = "ready"
  /\ \E usd \in UsdAmounts, date \in 0..(MaxDay + 1) :
       /\ request' = [symbol |-> "", shares_to_sell |-> 0, sell_date |-> date]
       /\ outcome' = [asserted |-> TRUE, value |-> to_gbp(historic_rates, usd, date),
                      usd |-> usd]
       /\ pc' = "gbp"
  /\ UNCHANGED calculator

NextLookup == GetHistoricPrice \/ ToGbp

SpecLookup == InitLookup /\ [][NextLookup]_vars

(***************************************************************************)
(* What the claims are stated with: sums over the ledger written from the  *)
(* specification's Lot Ledger queries, over whole numbers.                 *)
(***************************************************************************)
RECURSIVE SharesOver(_)
SharesOver(S) ==
  IF S = {} THEN 0
  ELSE LET i == CHOOSE i \in S : TRUE
       IN awards[i].available_to_sell + SharesOver(S \ {i})

\* Lots of `symbol` acquired on or before `date`.
LotsOnOrBefore(symbol, date) ==
  {i \in 1..Len(awards) :
     awards[i].symbol = symbol /\ awards[i].date_acquired <= date}

\* Lots of `symbol` acquired strictly before `date`: the Section 104 pool.
LotsBefore(symbol, date) ==
  {i \in 1..Len(awards) :
     awards[i].symbol = symbol /\ awards[i].date_acquired < date}

\* Lots of `symbol` acquired in [date, date + 30].
LotsInWindow(symbol, date) ==
  {i \in 1..Len(awards) :
     /\ awards[i].symbol = symbol
     /\ date <= awards[i].date_acquired
     /\ awards[i].date_acquired <= date + 30}

MinOf(a, b) == IF a <= b THEN a ELSE b

Called == pc \in {"returned", "panicked"}

(***************************************************************************)
(* C1                                                                      *)
(***************************************************************************)
\* C1: a call asking for more shares than the lots of its symbol acquired
\* on or before the sell date hold panics with the insufficient-holdings
\* error, returns no result and has made no price or exchange-rate lookup,
\* whatever data the two series hold; a call asking for at most that sum
\* (the sum itself included) does not raise that error.
C1_InsufficientHoldingsRejected ==
  Called =>
    LET held == SharesOver(LotsOnOrBefore(request.symbol, request.sell_date))
    IN IF request.shares_to_sell > held
       THEN /\ pc = "panicked"
            /\ outcome.err = "InsufficientHoldings"
            /\ ~outcome.result.some
            /\ ~outcome.matched
            /\ outcome.price_lookups = <<>>
            /\ outcome.rate_lookups = <<>>
       ELSE outcome.err # "InsufficientHoldings"

\* A rejected call whose ledger holds enough shares once lots of the other
\* symbol and lots acquired after the sell date are counted, on a date for
\* which the price series has no data.
C1_Witness ==
  /\ pc = "panicked"
  /\ outcome.err = "InsufficientHoldings"
  /\ request.shares_to_sell <= SharesOver(1..Len(awards))
  /\ \E i \in 1..Len(awards) :
       awards[i].symbol # request.symbol /\ awards[i].available_to_sell > 0
  /\ \E i \in 1..Len(awards) :
       /\ awards[i].symbol = request.symbol
       /\ awards[i].date_acquired > request.sell_date
       /\ awards[i].available_to_sell > 0
  /\ ~closest_prior(historic_prices, request.sell_date).some

(***************************************************************************)
(* C2                                                                      *)
(***************************************************************************)
\* C2: whenever the matching step runs, bed_and_breakfast_quantity is
\* min(W, quantity_to_sell) with W the shares of the symbol's lots acquired
\* in [sell_date, sell_date + 30], and section_104_quantity is the rest, so
\* the two add up to quantity_to_sell.
C2_MatchingPartition ==
  outcome.matched =>
    LET W == SharesOver(LotsInWindow(request.symbol, request.sell_date))
        bnb == MinOf(W, request.shares_to_sell)
    IN /\ outcome.bed_and_breakfast_shares = F(bnb)
       /\ outcome.section_104_holding_shares = F(request.shares_to_sell - bnb)
       /\ f64_add(outcome.bed_and_breakfast_shares,
                  outcome.section_104_holding_shares) = F(request.shares_to_sell)
       /\ (LotsInWindow(request.symbol, request.sell_date) = {}
             => outcome.bed_and_breakfast_shares = F(0))
       /\ (request.shares_to_sell > W => outcome.bed_and_breakfast_shares = F(W))

\* A disposal larger than a non-empty window supply.
C2_Witness ==
  /\ outcome.matched
  /\ LET W == SharesOver(LotsInWindow(request.symbol, request.sell_date))
     IN 0 < W /\ W < request.shares_to_sell

(***************************************************************************)
(* C10                                                                     *)
(***************************************************************************)
\* C10: with non-negative lots and a non-negative quantity that passes the
\* sufficiency check, the quantity charged to the Section 104 pool is at
\* most the shares of the lots strictly before the sell date, so a positive
\* pool quantity meets a positive pool.
C10_PoolCoversSection104 ==
  outcome.matched =>
    LET pool == SharesOver(LotsBefore(request.symbol, request.sell_date))
    IN /\ f64_le(outcome.section_104_holding_shares, F(pool))
       /\ (f64_gt(outcome.section_104_holding_shares, F(0)) => pool > 0)

\* A disposal the check lets through only because it counts a same-day lot,
\* and that still draws on the pool.
C10_Witness ==
  /\ outcome.matched
  /\ f64_gt(outcome.section_104_holding_shares, F(0))
  /\ request.shares_to_sell >
       SharesOver(LotsBefore(request.symbol, request.sell_date))
  /\ \E i \in 1..Len(awards) :
       /\ awards[i].symbol = request.symbol
       /\ awards[i].date_acquired = request.sell_date
       /\ awards[i].available_to_sell > 0

(***************************************************************************)
(* Exact-or-closest-prior, written from the specification's lookup         *)
(* contract: the value stored at the greatest date with data that is not   *)
(* after `date`.  Only used where such a date exists.                      *)
(***************************************************************************)
HasOnOrBefore(series, date) == \E k \in DOMAIN series : k <= date

OnOrBefore(series, date) ==
  LET k == CHOOSE k \in DOMAIN series :
             /\ k <= date
             /\ \A j \in DOMAIN series : j <= date => j <= k
  IN series[k]

\* Sum over a set of lots of available_to_sell * acquisition_price converted
\* at each lot's own acquisition date.
RECURSIVE CostOver(_)
CostOver(S) ==
  IF S = {} THEN F(0)
  ELSE LET i == CHOOSE i \in S : TRUE
       IN f64_add(f64_mul(F(awards[i].available_to_sell * awards[i].acquisition_price),
                          OnOrBefore(historic_rates, awards[i].date_acquired)),
                  CostOver(S \ {i}))

\* The scenarios below are fixed calls, the same in every state; the
\* formulas that quote them evaluate them in the states before the call on
\* an empty ledger only.
AtStart == pc = "ready" /\ awards = <<>>

\* Scenario A of the specification: one lot of 100 shares acquired
\* 2020-01-01 (day 0) at $10; 50 shares sold 2021-01-01 (day 366) at $20;
\* rate 0.8 throughout, exemption 0, rate 10%.
ScenarioA ==
  calculate_cgt(
    CGTCalculator(F(0), <<1, 10>>, <<EquityAward("GOOG", 0, 10, 100)>>, "GOOG",
                  (366 :> F(20)), (0 :> <<4, 5>>)),
    "GOOG", F(50), 366)

\* Scenario B: scenario A plus a lot of 20 shares acquired 2021-01-10
\* (day 375) at $15, the rate of that day being 0.75.
ScenarioB ==
  calculate_cgt(
    CGTCalculator(F(0), <<1, 10>>,
                  <<EquityAward("GOOG", 375, 15, 20), EquityAward("GOOG", 0, 10, 100)>>,
                  "GOOG", (366 :> F(20)), (0 :> <<4, 5>>) @@ (375 :> <<3, 4>>)),
    "GOOG", F(50), 366)

(***************************************************************************)
(* C3                                                                      *)
(***************************************************************************)
\* C3: a call with quantity_to_sell = 0 whose lookups succeed returns
\* proceeds, bed_and_breakfast_cost, section_104_holding_cost and cgt all
\* exactly 0, whatever the ledger holds.
C3_ZeroQuantityAllZero ==
  (pc = "returned" /\ request.shares_to_sell = 0) =>
    /\ outcome.result.proceeds = F(0)
    /\ outcome.result.bed_and_breakfast_cost = F(0)
    /\ outcome.result.section_104_holding_cost = F(0)
    /\ outcome.result.cgt = F(0)

(***************************************************************************)
(* C4                                                                      *)
(***************************************************************************)
\* C4: the Section 104 cost of a returned result is built from the symbol's
\* lots acquired strictly before the sell date only (a lot acquired on the
\* sell date is left out): the sum of available_to_sell * acquisition_price
\* converted at each lot's own date, divided by the sum of available_to_sell,
\* times section_104_quantity.  With no shares before the sell date that
\* quotient is 0/0 and the cost is NaN.  Scenario A gives 400.
C4_Section104Cost ==
  /\ AtStart => ScenarioA.result.section_104_holding_cost = F(400)
  /\ pc = "returned" =>
       LET pool == LotsBefore(request.symbol, request.sell_date)
           shares == SharesOver(pool)
       IN IF shares > 0
          THEN outcome.result.section_104_holding_cost =
                 f64_mul(f64_div(CostOver(pool), F(shares)),
                         outcome.section_104_holding_shares)
          ELSE IsNaN(outcome.result.section_104_holding_cost)

\* A disposal drawing on a pool of two lots bought at different prices and
\* rates, with a further lot acquired on the sell date itself.
C4_Witness ==
  /\ pc = "returned"
  /\ f64_gt(outcome.section_104_holding_shares, F(0))
  /\ \E i, j \in LotsBefore(request.symbol, request.sell_date) :
       /\ awards[i].acquisition_price # awards[j].acquisition_price
       /\ awards[i].available_to_sell > 0
       /\ awards[j].available_to_sell > 0
       /\ OnOrBefore(historic_rates, awards[i].date_acquired)
            # OnOrBefore(historic_rates, awards[j].date_acquired)

(***************************************************************************)
(* C5, C9                                                                  *)
(***************************************************************************)
\* Shares consumed by the first k iterations of the bed-and-breakfast loop.
FilledBy(k) ==
  f64_sum([j \in 1..k |-> outcome.fills[j].shares_to_fill])

\* C5: the bed-and-breakfast loop visits exactly the symbol's lots of the
\* window [sell_date, sell_date + 30], in ascending date_acquired order
\* whatever their order in the ledger; each visit takes
\* min(remaining, available_to_sell) shares and prices them at the lot's
\* acquisition_price converted at the lot's own date; the shares taken add
\* up to bed_and_breakfast_quantity, at most one lot is taken in part, and a
\* lot visited after the quantity is filled costs 0.  The returned
\* bed_and_breakfast_cost is the sum of those costs.
C5_BedAndBreakfastFifo ==
  /\ AtStart =>
       /\ ScenarioB.bed_and_breakfast_shares = F(20)
       /\ ScenarioB.section_104_holding_shares = F(30)
       /\ ScenarioB.result.bed_and_breakfast_cost = F(225)
       /\ ScenarioB.result.section_104_holding_cost = F(240)
  /\ outcome.matched =>
       LET fs == outcome.fills
           n == Len(fs)
           window == LotsInWindow(request.symbol, request.sell_date)
       IN /\ n = Cardinality(window)
          /\ \A i \in 1..n :
               Cardinality({j \in 1..n : fs[j].award = fs[i].award})
                 = Cardinality({j \in window : awards[j] = fs[i].award})
          /\ \A i, j \in 1..n :
               i < j => fs[i].award.date_acquired <= fs[j].award.date_acquired
          /\ \A i \in 1..n :
               /\ fs[i].shares_to_fill =
                    f64_min(f64_sub(outcome.bed_and_breakfast_shares, FilledBy(i - 1)),
                            F(fs[i].award.available_to_sell))
               /\ fs[i].cost =
                    f64_mul(f64_mul(fs[i].shares_to_fill, F(fs[i].award.acquisition_price)),
                            OnOrBefore(historic_rates, fs[i].award.date_acquired))
               /\ (FilledBy(i - 1) = outcome.bed_and_breakfast_shares
                     => fs[i].cost = F(0))
          /\ FilledBy(n) = outcome.bed_and_breakfast_shares
          /\ Cardinality({i \in 1..n :
                            /\ f64_gt(fs[i].shares_to_fill, F(0))
                            /\ f64_lt(fs[i].shares_to_fill,
                                      F(fs[i].award.available_to_sell))}) <= 1
          /\ (pc = "returned" =>
                outcome.result.bed_and_breakfast_cost =
                  f64_sum([i \in 1..n |-> fs[i].cost]))

\* Two window lots listed latest first in the ledger: the earlier one is
\* visited first and taken in part, the later one gives nothing.
C5_Witness ==
  /\ pc = "returned"
  /\ Len(awards) = 2
  /\ awards[1].date_acquired > awards[2].date_acquired
  /\ awards[1].acquisition_price # awards[2].acquisition_price
  /\ Len(outcome.fills) = 2
  /\ outcome.fills[1].award = awards[2]
  /\ f64_gt(outcome.fills[1].shares_to_fill, F(0))
  /\ f64_lt(outcome.fills[1].shares_to_fill, F(awards[2].available_to_sell))
  /\ awards[1].available_to_sell > 0
  /\ outcome.fills[2].cost = F(0)

\* C9: the bed-and-breakfast loop stops once bed_and_breakfast_quantity is
\* filled: no lot is visited, and no exchange rate looked up for it, when
\* nothing remains to fill.
C9_StopsOnceFilled ==
  outcome.matched =>
    \A i \in 1..Len(outcome.fills) :
      FilledBy(i - 1) # outcome.bed_and_breakfast_shares

(***************************************************************************)
(* C6                                                                      *)
(***************************************************************************)
\* C6: a returned result has amount_subject_to_cgt =
\* max(0, proceeds - bed_and_breakfast_cost - section_104_holding_cost -
\* annual_exemption_amount) over its own fields (0 when the Section 104 cost
\* is NaN, as f64::max gives), cgt = amount_subject_to_cgt * cgt_rate,
\* neither negative, and carries the calculator's rate and the proceeds
\* quantity * price * rate of the sell date.  Scenario A gives 800, 400, 40.
C6_TaxFormula ==
  /\ AtStart =>
       /\ ScenarioA.result.proceeds = F(800)
       /\ ScenarioA.result.amount_subject_to_cgt = F(400)
       /\ ScenarioA.result.cgt = F(40)
  /\ pc = "returned" =>
       LET r == outcome.result
           net == f64_sub(f64_sub(f64_sub(r.proceeds, r.bed_and_breakfast_cost),
                                  r.section_104_holding_cost),
                          annual_exemption_amount)
       IN /\ r.some
          /\ r.amount_subject_to_cgt =
               (IF IsFinite(net) /\ net[1] > 0 THEN net ELSE F(0))
          /\ r.cgt = f64_mul(r.amount_subject_to_cgt, cgt_rate)
          /\ IsFinite(r.amount_subject_to_cgt) /\ r.amount_subject_to_cgt[1] >= 0
          /\ IsFinite(r.cgt) /\ r.cgt[1] >= 0
          /\ r.cgt_rate = cgt_rate
          /\ r.proceeds =
               f64_mul(f64_mul(OnOrBefore(historic_prices, request.sell_date),
                               F(request.shares_to_sell)),
                       OnOrBefore(historic_rates, request.sell_date))

\* A gain above a non-zero exemption: tax is due.
C6_Witness ==
  /\ pc = "returned"
  /\ annual_exemption_amount # F(0)
  /\ IsFinite(outcome.result.section_104_holding_cost)
  /\ outcome.result.cgt[1] > 0

(***************************************************************************)
(* C7                                                                      *)
(***************************************************************************)
\* C7: asked to cost a non-zero section_104_quantity when the lots strictly
\* before the sell date hold 0 shares, Section 104 costing ends in the fatal
\* InconsistentPool error and returns no cost.
C7_ZeroPoolSignalled ==
  (/\ Called
   /\ request.shares_to_sell # 0
   /\ SharesOver(LotsBefore(request.symbol, request.sell_date)) = 0)
  => /\ pc = "panicked"
     /\ outcome.err = "InconsistentPool"
     /\ ~outcome.result.some

(***************************************************************************)
(* C8                                                                      *)
(***************************************************************************)
\* What exact-or-closest-prior gives for `date`, case by case.
ExactOrPrior(series, date, found) ==
  LET earlier == {k \in DOMAIN series : k < date}
  IN IF date \in DOMAIN series
     THEN found = Some(series[date])
     ELSE IF earlier # {}
     THEN \E k \in earlier :
            /\ \A j \in earlier : j <= k
            /\ found = Some(series[k])
     ELSE found = None

\* C8: get_historic_price and to_gbp answer for a date d with the value
\* stored at d when d has data, else with the value stored at the greatest
\* date before d that has data (never a later one), else with None; to_gbp
\* answers with that rate times the amount.
C8_ExactOrClosestPrior ==
  /\ pc = "price" =>
       ExactOrPrior(historic_prices, request.sell_date, outcome.value)
  /\ pc = "gbp" =>
       /\ outcome.value.some = HasOnOrBefore(historic_rates, request.sell_date)
       /\ outcome.value.some =>
            \E rate \in {historic_rates[k] : k \in DOMAIN historic_rates} :
              /\ ExactOrPrior(historic_rates, request.sell_date, Some(rate))
              /\ outcome.value.v = f64_mul(rate, outcome.usd)

\* A conversion on a day without data, with data on two earlier days and on
\* a later day.
C8_Witness ==
  /\ pc = "gbp"
  /\ outcome.value.some
  /\ request.sell_date \notin DOMAIN historic_rates
  /\ Cardinality({k \in DOMAIN historic_rates : k < request.sell_date}) >= 2
  /\ \E k \in DOMAIN historic_rates : k > request.sell_date

====
